---- MODULE Spec2Model ----
(***************************************************************************)
(* A model of the PMW3901 optical flow sensor driver (src/src/lib.rs).     *)
(*                                                                         *)
(* The driver is synchronous and single threaded.  A caller owns the       *)
(* handle (Pmw3901: the SPI channel and the public debug flag), calls one  *)
(* operation at a time and observes how the call ends: Ok(value), Err (an  *)
(* io::Error of the transport, propagated by `?`) or a panic.  The SPI     *)
(* transport is outside the crate: what it clocks in, and whether a        *)
(* transfer fails, is chosen nondeterministically per submission.          *)
(*                                                                         *)
(* bus records what the current call handed to the transport, in order:    *)
(* one entry per Spidev::transfer, per Spidev::transfer_multiple and per   *)
(* thread::sleep.                                                          *)
(***************************************************************************)
EXTENDS Integers, Sequences, FiniteSets, TLC

VARIABLES
    debug,  \* Pmw3901.debug
    pc,     \* position of the caller: "idle", inside init, or "done"
    call,   \* the operation being called and its arguments
    bus,    \* transport submissions and sleeps of the current call
    ret,    \* how the call ended
    out,    \* lines printed by the call (println!)
    configured, \* history: an init call on this handle has returned Ok(())
    bank,   \* registers of a simulated device that answers the sample reads
    prev,   \* history: outcome of the sample read that ended just before
    twin    \* a second handle, with the other debug flag, run side by side

vars == <<debug, pc, call, bus, ret, out, configured, bank, prev, twin>>

\* What only the side-by-side and simulated-device specifications change.
aux == <<bank, prev, twin>>

(***************************************************************************)
(* Bounds and input sets.                                                  *)
(***************************************************************************)
\* Longest address list / pair list passed to the batched helpers.
MaxBatch == 3

\* The handshake byte every response is compared with.
HANDSHAKE == 255

\* Register addresses a caller passes to the single register operations.
AddrVals == {0, 2, 58, 95, 127, 128, 186, 255}
\* Values a caller writes.
WriteVals == {0, 90, 255}
\* Bytes the device may clock in as payload.
DataVals == {0, 16, 73, 128, 182, 240, 255}
\* First response bytes: the handshake and two corrupted ones.
FirstVals == {0, 127, 255}

\* Inputs of the batched helpers (kept smaller: they are raised to MaxBatch).
BatchAddrs == {2, 127, 130}
BatchVals == {0, 90}
BatchReadRx == {<<255, 16>>, <<255, 240>>, <<0, 16>>, <<127, 255>>}
BatchWriteRx == {<<255, 255>>, <<0, 255>>, <<255, 0>>, <<0, 0>>}

\* Corrupted response frames injected into a configuration batch.
BadWriteRx == {<<0, 255>>, <<255, 0>>, <<0, 0>>}

SeqsUpTo(S, n) == UNION {[1..k -> S] : k \in 0..n}

(***************************************************************************)
(* u8 arithmetic.                                                          *)
(***************************************************************************)
\* addr & 0x80 > 0
HighBitSet(addr) == (addr \div 128) % 2 = 1

\* addr | 0x80
OrWriteBit(addr) == IF HighBitSet(addr) THEN addr ELSE addr + 128

(***************************************************************************)
(* Outcomes of a call and entries of the bus log.                          *)
(***************************************************************************)
Ok(v) == [kind |-> "Ok", val |-> v, msg |-> ""]
\* `?` on a failed transport call: the io::Error is returned to the caller.
Err == [kind |-> "Err", val |-> <<>>, msg |-> "io::Error"]
\* panic!(msg, arg): the call does not return.
Panic(m, arg) == [kind |-> "Panic", val |-> <<arg>>, msg |-> m]
None == [kind |-> "None", val |-> <<>>, msg |-> ""]

\* rx buffers are zero initialised and stay so when the transfer fails.
RxAfter(ok, rxs) == IF ok THEN rxs ELSE [i \in 1..Len(rxs) |-> <<0, 0>>]

Transfer(tx, ok, rx) ==
    [t |-> "transfer", tx |-> <<tx>>, ok |-> ok, rx |-> RxAfter(ok, <<rx>>),
     ms |-> 0]
TransferMultiple(txs, ok, rxs) ==
    [t |-> "transfer_multiple", tx |-> txs, ok |-> ok, rx |-> RxAfter(ok, rxs),
     ms |-> 0]
Sleep(n) == [t |-> "sleep", tx |-> <<>>, ok |-> TRUE, rx |-> <<>>, ms |-> n]

(***************************************************************************)
(* Register protocol: read_register, write_register, read_registers,       *)
(* write_registers.  Each operator takes the call's arguments and what the *)
(* transport does with the submission (ok: the transfer succeeds; rx: the  *)
(* bytes clocked in) and yields the bus entries and the outcome.           *)
(***************************************************************************)
\* Variant: the first response byte is not compared with the handshake.
read_register_unvalidated(addr, ok, rx) ==
    LET ev == <<Transfer(<<addr, 0>>, ok, rx)>>
    IN  IF ~ok THEN [ev |-> ev, ret |-> Err]
        ELSE [ev |-> ev, ret |-> Ok(<<rx[2]>>)]

read_register(addr, ok, rx) ==
    LET tx_buf == <<addr, 0>>
        ev == <<Transfer(tx_buf, ok, rx)>>
    IN  IF ~ok THEN [ev |-> ev, ret |-> Err]
        ELSE IF rx[1] # HANDSHAKE
        THEN [ev |-> ev,
              ret |-> Panic("Unexpected first byte in read response", rx[1])]
        ELSE [ev |-> ev, ret |-> Ok(<<rx[2]>>)]

\* Variant: the value written is returned instead of the second response byte.
write_register_echo(addr, val, ok, rx) ==
    IF HighBitSet(addr)
    THEN [ev |-> <<>>, ret |-> Panic("Write bit already set on addr", addr)]
    ELSE
    LET ev == <<Transfer(<<OrWriteBit(addr), val>>, ok, rx)>>
    IN  IF ~ok THEN [ev |-> ev, ret |-> Err]
        ELSE IF rx[1] # HANDSHAKE
        THEN [ev |-> ev,
              ret |-> Panic("Unexpected first byte in read response", rx[1])]
        ELSE IF rx[2] # HANDSHAKE
        THEN [ev |-> ev,
              ret |-> Panic("Unexpected second byte in read response", rx[1])]
        ELSE [ev |-> ev, ret |-> Ok(<<val>>)]

\* Variant: the write bit of the caller's address is not tested.
write_register_nocheck(addr, val, ok, rx) ==
    LET ev == <<Transfer(<<OrWriteBit(addr), val>>, ok, rx)>>
    IN  IF ~ok THEN [ev |-> ev, ret |-> Err]
        ELSE IF rx[1] # HANDSHAKE
        THEN [ev |-> ev,
              ret |-> Panic("Unexpected first byte in read response", rx[1])]
        ELSE IF rx[2] # HANDSHAKE
        THEN [ev |-> ev,
              ret |-> Panic("Unexpected second byte in read response", rx[1])]
        ELSE [ev |-> ev, ret |-> Ok(<<rx[2]>>)]

write_register(addr, val, ok, rx) ==
    IF HighBitSet(addr)
    THEN [ev |-> <<>>, ret |-> Panic("Write bit already set on addr", addr)]
    ELSE
    LET tx_buf == <<OrWriteBit(addr), val>>
        ev == <<Transfer(tx_buf, ok, rx)>>
    IN  IF ~ok THEN [ev |-> ev, ret |-> Err]
        ELSE IF rx[1] # HANDSHAKE
        THEN [ev |-> ev,
              ret |-> Panic("Unexpected first byte in read response", rx[1])]
        ELSE IF rx[2] # HANDSHAKE
        THEN [ev |-> ev,
              ret |-> Panic("Unexpected second byte in read response", rx[1])]
        ELSE [ev |-> ev, ret |-> Ok(<<rx[2]>>)]

\* Variant: bit 7 of each address is masked off before it is sent.
read_registers_tx_masked(addrs) == [i \in 1..Len(addrs) |-> <<addrs[i] % 128, 0>>]

\* The frames of a batched read: [*addr, 0] per address, in input order.
read_registers_tx(addrs) == [i \in 1..Len(addrs) |-> <<addrs[i], 0>>]

\* Variant: the last pair gets no frame.
write_registers_tx_droplast(addrs_and_values) ==
    [i \in 1..(IF Len(addrs_and_values) = 0 THEN 0
               ELSE Len(addrs_and_values) - 1) |->
        <<OrWriteBit(addrs_and_values[i][1]), addrs_and_values[i][2]>>]

\* The frames of a batched write: [addr | 0x80, val] per pair, in input order.
write_registers_tx(addrs_and_values) ==
    [i \in 1..Len(addrs_and_values) |->
        <<OrWriteBit(addrs_and_values[i][1]), addrs_and_values[i][2]>>]

\* Least element of a nonempty set of indices, 0 for the empty set.
FirstOf(S) == IF S = {} THEN 0 ELSE CHOOSE i \in S : \A j \in S : i <= j

\* Variant: only the first buffer is validated.
read_registers_check_firstonly(bufs) ==
    IF Len(bufs) > 0 /\ bufs[1][1] # HANDSHAKE THEN 1 ELSE 0

\* The validation loop of read_registers: the index of the first buffer whose
\* first byte is not the handshake (0: every buffer passes).
read_registers_check(bufs) ==
    FirstOf({i \in 1..Len(bufs) : bufs[i][1] # HANDSHAKE})

\* Variant: the values are collected back to front.
read_registers_res_reversed(bufs) ==
    [i \in 1..Len(bufs) |-> bufs[Len(bufs) + 1 - i][2]]

\* The values read_registers collects: the second byte of each buffer, in order.
read_registers_res(bufs) == [i \in 1..Len(bufs) |-> bufs[i][2]]

\* Variant: frames are sent and validated one after the other, so nothing
\* follows the first rejected frame.
read_registers_sequential(addrs, ok, rxs) ==
    LET k == read_registers_check(rxs)
        n == IF ok /\ k # 0 THEN k ELSE Len(addrs)
        ev == <<TransferMultiple(SubSeq(read_registers_tx(addrs), 1, n), ok,
                                 SubSeq(rxs, 1, n))>>
    IN  IF ~ok THEN [ev |-> ev, ret |-> Err]
        ELSE IF k # 0
        THEN [ev |-> ev,
              ret |-> Panic("Unexpected first byte in read response", rxs[k][1])]
        ELSE [ev |-> ev, ret |-> Ok(read_registers_res(rxs))]

read_registers(addrs, ok, rxs) ==
    LET ev == <<TransferMultiple(read_registers_tx(addrs), ok, rxs)>>
        k == read_registers_check(rxs)
    IN  IF ~ok THEN [ev |-> ev, ret |-> Err]
        ELSE IF k # 0
        THEN [ev |-> ev,
              ret |-> Panic("Unexpected first byte in read response", rxs[k][1])]
        ELSE [ev |-> ev, ret |-> Ok(read_registers_res(rxs))]

\* The validation loop of write_registers: both of its checks test buf.1[0].
\* Yields the index of the first rejected buffer (0: none) and the check that
\* rejected it.
write_registers_check(bufs) ==
    LET first == {i \in 1..Len(bufs) : bufs[i][1] # HANDSHAKE}
        second == {i \in 1..Len(bufs) : bufs[i][1] # HANDSHAKE}
        k == FirstOf(first \cup second)
    IN  [k |-> k, first |-> k \in first]

write_registers(addrs_and_values, ok, rxs) ==
    LET ev == <<TransferMultiple(write_registers_tx(addrs_and_values), ok, rxs)>>
        c == write_registers_check(rxs)
    IN  IF ~ok THEN [ev |-> ev, ret |-> Err]
        ELSE IF c.k # 0 /\ c.first
        THEN [ev |-> ev,
              ret |-> Panic("Unexpected first byte in write response",
                            rxs[c.k][1])]
        ELSE IF c.k # 0
        THEN [ev |-> ev,
              ret |-> Panic("Unexpected second byte in write response",
                            rxs[c.k][1])]
        ELSE [ev |-> ev, ret |-> Ok(<<>>)]

(***************************************************************************)
(* read_sample.                                                            *)
(***************************************************************************)
\* Variant: the two bytes are read as an unsigned 16-bit value.
read_i16_unsigned(buf) == buf[1] + 256 * buf[2]

\* LittleEndian::read_i16 of a two byte slice.
read_i16(buf) ==
    LET u == buf[1] + 256 * buf[2]
    IN  IF u >= 32768 THEN u - 65536 ELSE u

SAMPLE_REGISTERS == <<2, 3, 4, 5, 6>>

\* Variant: the deltas are added to those of the sample read before.
read_sample_accumulating(ok, rxs) ==
    LET r == read_registers(SAMPLE_REGISTERS, ok, rxs)
        res == r.ret.val
        x0 == IF prev.kind = "Ok" THEN prev.val[1] ELSE 0
        y0 == IF prev.kind = "Ok" THEN prev.val[2] ELSE 0
    IN  IF r.ret.kind # "Ok" THEN r
        ELSE [ev |-> r.ev,
              ret |-> Ok(<<x0 + read_i16(SubSeq(res, 2, 3)),
                           y0 + read_i16(SubSeq(res, 4, 5))>>)]

\* Variant: five single register reads instead of one batch.
read_sample_single_reads(ok, rxs) ==
    LET r == read_registers(SAMPLE_REGISTERS, ok, rxs)
        res == r.ret.val
        ev == [i \in 1..5 |-> Transfer(<<SAMPLE_REGISTERS[i], 0>>, ok, rxs[i])]
    IN  IF r.ret.kind # "Ok" THEN [ev |-> ev, ret |-> r.ret]
        ELSE [ev |-> ev,
              ret |-> Ok(<<read_i16(SubSeq(res, 2, 3)),
                           read_i16(SubSeq(res, 4, 5))>>)]

\* Variant: after a rejected handshake the device is reset again.
read_sample_reinit(ok, rxs) ==
    LET r == read_registers(SAMPLE_REGISTERS, ok, rxs)
        res == r.ret.val
    IN  IF r.ret.kind = "Panic"
        THEN [ev |-> r.ev \o <<Transfer(<<OrWriteBit(58), 90>>, TRUE, <<255, 255>>)>>,
              ret |-> r.ret]
        ELSE IF r.ret.kind # "Ok" THEN r
        ELSE [ev |-> r.ev,
              ret |-> Ok(<<read_i16(SubSeq(res, 2, 3)),
                           read_i16(SubSeq(res, 4, 5))>>)]

read_sample(ok, rxs) ==
    LET r == read_registers(SAMPLE_REGISTERS, ok, rxs)
        res == r.ret.val
    IN  IF r.ret.kind # "Ok" THEN r
        ELSE [ev |-> r.ev,
              ret |-> Ok(<<read_i16(SubSeq(res, 2, 3)),
                           read_i16(SubSeq(res, 4, 5))>>)]

(***************************************************************************)
(* The configuration tables of write_init_registers.                       *)
(***************************************************************************)
INIT_REGISTERS_1 ==
    << <<127, 0>>, <<97, 173>>, <<127, 3>>, <<64, 0>>, <<127, 5>>,
       <<65, 179>>, <<67, 241>>, <<69, 20>>, <<91, 50>>, <<95, 52>>,
       <<123, 8>>, <<127, 6>>, <<68, 27>>, <<64, 191>>, <<78, 63>>,
       <<127, 8>>, <<101, 32>>, <<106, 24>>, <<127, 9>>, <<79, 175>>,
       <<95, 64>>, <<72, 128>>, <<73, 128>>, <<87, 119>>, <<96, 120>>,
       <<97, 120>>, <<98, 8>>, <<99, 80>>, <<127, 10>>, <<69, 96>>,
       <<127, 0>>, <<77, 17>>, <<85, 128>>, <<116, 31>>, <<117, 31>>,
       <<74, 120>>, <<75, 120>>, <<68, 8>>, <<69, 80>>, <<100, 255>>,
       <<101, 31>>, <<127, 20>>, <<101, 96>>, <<102, 8>>, <<99, 120>>,
       <<127, 21>>, <<72, 88>>, <<127, 7>>, <<65, 13>>, <<67, 20>>,
       <<75, 14>>, <<69, 15>>, <<68, 66>>, <<76, 128>>, <<127, 16>>,
       <<91, 2>>, <<127, 7>>, <<64, 65>>, <<112, 0>> >>

\* Variant: the first address of the second table already has bit 7 set.
INIT_REGISTERS_2_highbit ==
    << <<178, 68>>, <<127, 7>>, <<64, 64>>, <<127, 6>>, <<98, 240>>,
       <<99, 0>>, <<127, 13>>, <<72, 192>>, <<111, 213>>, <<127, 0>>,
       <<91, 160>>, <<78, 168>>, <<90, 80>>, <<64, 128>> >>

INIT_REGISTERS_2 ==
    << <<50, 68>>, <<127, 7>>, <<64, 64>>, <<127, 6>>, <<98, 240>>,
       <<99, 0>>, <<127, 13>>, <<72, 192>>, <<111, 213>>, <<127, 0>>,
       <<91, 160>>, <<78, 168>>, <<90, 80>>, <<64, 128>> >>

(***************************************************************************)
(* init and write_init_registers, one step per transport submission or     *)
(* sleep.  A step yields its bus entries, the lines it prints, the outcome *)
(* (None while init goes on) and the position init continues at.           *)
(***************************************************************************)
Goes(ev, printed, next) ==
    [ev |-> ev, out |-> printed, ret |-> None, next |-> next]
Ends(ev, r) == [ev |-> ev, out |-> <<>>, ret |-> r, next |-> "done"]

\* Variant: the result of the reset write is dropped (let _ = ...).
init_reset_ignored(ok, rx) ==
    LET r == write_register(58, 90, ok, rx)
    IN  IF r.ret.kind = "Panic" THEN Ends(r.ev, r.ret)
        ELSE Goes(r.ev, <<>>, "init_product_id")

\* Power on reset.
init_reset(ok, rx) ==
    LET r == write_register(58, 90, ok, rx)
    IN  IF r.ret.kind # "Ok" THEN Ends(r.ev, r.ret)
        ELSE Goes(r.ev, <<>>, "init_product_id")

\* Variant: the product id is read but not compared with 0x49.
init_product_id_unchecked(dbg, ok, rx) ==
    LET r == read_register(0, ok, rx)
    IN  IF r.ret.kind # "Ok" THEN Ends(r.ev, r.ret)
        ELSE Goes(r.ev, IF dbg THEN <<"Product ID: 73">> ELSE <<>>,
                  "init_inverse_id")

\* Verify product id.
init_product_id(dbg, ok, rx) ==
    LET r == read_register(0, ok, rx)
        product_id == r.ret.val[1]
    IN  IF r.ret.kind # "Ok" THEN Ends(r.ev, r.ret)
        ELSE IF product_id # 73
        THEN Ends(r.ev, Panic("Unexpected product id (expected 0x49)", product_id))
        ELSE Goes(r.ev, IF dbg THEN <<"Product ID: 73">> ELSE <<>>,
                  "init_inverse_id")

\* Verify inverse product id.  The panic prints product_id, which is 0x49 here.
init_inverse_id(dbg, ok, rx) ==
    LET r == read_register(95, ok, rx)
        inverse_product_id == r.ret.val[1]
    IN  IF r.ret.kind # "Ok" THEN Ends(r.ev, r.ret)
        ELSE IF inverse_product_id # 182
        THEN Ends(r.ev, Panic("Unexpected inverse product id (expected 0xb6)", 73))
        ELSE Goes(r.ev, IF dbg THEN <<"Inverse Product ID: 182">> ELSE <<>>,
                  "init_batch1")

\* Variant: a transport error of the first batch is dropped and init goes on.
init_batch1_ignore_err(ok, rxs) ==
    LET r == write_registers(INIT_REGISTERS_1, ok, rxs)
    IN  IF r.ret.kind = "Panic" THEN Ends(r.ev, r.ret)
        ELSE Goes(r.ev, <<>>, "init_sleep")

\* Variant: the second batch follows the first without the sleep.
init_batch1_nosleep(ok, rxs) ==
    LET r == write_registers(INIT_REGISTERS_1, ok, rxs)
    IN  IF r.ret.kind # "Ok" THEN Ends(r.ev, r.ret)
        ELSE Goes(r.ev, <<>>, "init_batch2")

\* write_init_registers: the first write_registers call.
init_batch1(ok, rxs) ==
    LET r == write_registers(INIT_REGISTERS_1, ok, rxs)
    IN  IF r.ret.kind # "Ok" THEN Ends(r.ev, r.ret)
        ELSE Goes(r.ev, <<>>, "init_sleep")

\* thread::sleep(time::Duration::from_millis(100))
init_sleep == Goes(<<Sleep(100)>>, <<>>, "init_batch2")

\* write_init_registers: the second write_registers call, then Ok(()).
init_batch2(ok, rxs) ==
    LET r == write_registers(INIT_REGISTERS_2, ok, rxs)
    IN  IF r.ret.kind # "Ok" THEN Ends(r.ev, r.ret)
        ELSE Ends(r.ev, Ok(<<>>))

(***************************************************************************)
(* The state machine.                                                      *)
(***************************************************************************)
\* Pmw3901::new succeeded: the channel is open and debug is false.
\* The second handle before any call.
TwinIdle == [pc |-> "idle", bus |-> <<>>, ret |-> None, out |-> <<>>]

Init ==
    /\ debug = FALSE
    /\ pc = "idle"
    /\ call = [op |-> "new", args |-> <<>>]
    /\ bus = <<>>
    /\ ret = None
    /\ out = <<>>
    /\ configured = FALSE
    /\ bank = [i \in 1..5 |-> 0]
    /\ prev = None
    /\ twin = TwinIdle

\* What the transport may do with one frame: fail, or clock in two bytes.
SingleRx == {<<f, d>> : f \in FirstVals, d \in DataVals}
Answers(RxSet) == ({FALSE} \X {<<0, 0>>}) \cup ({TRUE} \X RxSet)

\* Responses to a batch of n frames: the transfer fails, or each frame is
\* answered from RxSet.
BatchAnswers(n, RxSet) ==
    {<<FALSE, [i \in 1..n |-> <<0, 0>>]>>} \cup ({TRUE} \X [1..n -> RxSet])

\* Responses to a configuration batch of n frames: the transfer fails, every
\* frame is answered with the handshake, or frame k alone is corrupted.
GoodRx(n) == [i \in 1..n |-> <<HANDSHAKE, HANDSHAKE>>]
ConfigAnswers(n) ==
    {<<FALSE, [i \in 1..n |-> <<0, 0>>]>>}
    \cup {<<TRUE, GoodRx(n)>>}
    \cup {<<TRUE, [GoodRx(n) EXCEPT ![k] = bad]>> : k \in 1..n, bad \in BadWriteRx}

\* A call that runs to its end in one step.
Finish(op, args, r) ==
    /\ call' = [op |-> op, args |-> args]
    /\ bus' = r.ev
    /\ ret' = r.ret
    /\ out' = <<>>
    /\ pc' = "done"
    /\ UNCHANGED <<debug, configured, aux>>

\* One step of init.
Step(r) ==
    /\ bus' = bus \o r.ev
    /\ out' = out \o r.out
    /\ ret' = r.ret
    /\ pc' = r.next
    /\ configured' = (configured \/ (r.next = "done" /\ r.ret.kind = "Ok"))
    /\ UNCHANGED <<debug, call, aux>>

\* The caller sets the public field debug.
SetDebug ==
    /\ pc = "idle"
    /\ debug' = ~debug
    /\ UNCHANGED <<pc, call, bus, ret, out, configured, aux>>

ReadRegister ==
    /\ pc = "idle"
    /\ \E addr \in AddrVals, a \in Answers(SingleRx) :
         Finish("read_register", <<addr>>, read_register(addr, a[1], a[2]))

WriteRegister ==
    /\ pc = "idle"
    /\ \E addr \in AddrVals, val \in WriteVals,
          a \in Answers({HANDSHAKE, 0} \X {HANDSHAKE, 0, 90}) :
         Finish("write_register", <<addr, val>>,
                write_register(addr, val, a[1], a[2]))

ReadRegisters ==
    /\ pc = "idle"
    /\ \E addrs \in SeqsUpTo(BatchAddrs, MaxBatch) :
         \E a \in BatchAnswers(Len(addrs), BatchReadRx) :
           Finish("read_registers", addrs, read_registers(addrs, a[1], a[2]))

WriteRegisters ==
    /\ pc = "idle"
    /\ \E pairs \in SeqsUpTo(BatchAddrs \X BatchVals, MaxBatch) :
         \E a \in BatchAnswers(Len(pairs), BatchWriteRx) :
           Finish("write_registers", pairs, write_registers(pairs, a[1], a[2]))

ReadSample ==
    /\ pc = "idle"
    /\ \E ok \in BOOLEAN, k \in 0..5, f \in FirstVals \ {HANDSHAKE},
          d \in [1..5 -> DataVals] :
         /\ ~ok => (k = 0 /\ d = [i \in 1..5 |-> 0])
         /\ k = 0 => f = 0
         /\ LET rxs == [i \in 1..5 |->
                          IF ~ok THEN <<0, 0>>
                          ELSE <<IF i = k THEN f ELSE HANDSHAKE, d[i]>>]
            IN  Finish("read_sample", <<>>, read_sample(ok, rxs))

InitReset ==
    /\ pc = "idle"
    /\ \E a \in Answers({HANDSHAKE, 0} \X {HANDSHAKE, 0}) :
         /\ call' = [op |-> "init", args |-> <<>>]
         /\ LET r == init_reset(a[1], a[2])
            IN  /\ bus' = r.ev
                /\ out' = r.out
                /\ ret' = r.ret
                /\ pc' = r.next
         /\ UNCHANGED <<debug, configured, aux>>

InitProductId ==
    /\ pc = "init_product_id"
    /\ \E a \in Answers(SingleRx) : Step(init_product_id(debug, a[1], a[2]))

InitInverseId ==
    /\ pc = "init_inverse_id"
    /\ \E a \in Answers(SingleRx) : Step(init_inverse_id(debug, a[1], a[2]))

InitBatch1 ==
    /\ pc = "init_batch1"
    /\ \E a \in ConfigAnswers(Len(INIT_REGISTERS_1)) :
         Step(init_batch1(a[1], a[2]))

InitSleep ==
    /\ pc = "init_sleep"
    /\ Step(init_sleep)

InitBatch2 ==
    /\ pc = "init_batch2"
    /\ \E a \in ConfigAnswers(Len(INIT_REGISTERS_2)) :
         Step(init_batch2(a[1], a[2]))

\* The call has ended and the caller has its outcome: the handle is idle again.
Return ==
    /\ pc = "done"
    /\ pc' = "idle"
    /\ call' = [op |-> "new", args |-> <<>>]
    /\ bus' = <<>>
    /\ ret' = None
    /\ out' = <<>>
    /\ UNCHANGED <<debug, configured, aux>>

Next ==
    \/ SetDebug
    \/ ReadRegister
    \/ WriteRegister
    \/ ReadRegisters
    \/ WriteRegisters
    \/ ReadSample
    \/ InitReset
    \/ InitProductId
    \/ InitInverseId
    \/ InitBatch1
    \/ InitSleep
    \/ InitBatch2
    \/ Return

Spec == Init /\ [][Next]_vars

(***************************************************************************)
(* read_sample against a simulated device: a bank holding registers 0x02   *)
(* to 0x06, which answers every read frame with the handshake and the      *)
(* register's value.  The bank changes when the device moves and when the  *)
(* caller writes one of its registers.                                     *)
(***************************************************************************)
\* Values a register of the bank may hold.
BankVals == {0, 16, 240, 255}

\* The bank's answers to the five frames of read_sample.
BankAnswers == [i \in 1..5 |-> <<HANDSHAKE, bank[i]>>]

InitBank ==
    /\ debug = FALSE
    /\ pc = "idle"
    /\ call = [op |-> "new", args |-> <<>>]
    /\ bus = <<>>
    /\ ret = None
    /\ out = <<>>
    /\ configured = FALSE
    /\ bank \in [1..5 -> BankVals]
    /\ prev = None
    /\ twin = TwinIdle

SampleBank ==
    /\ pc = "idle"
    /\ Finish("read_sample", <<>>, read_sample(TRUE, BankAnswers))

\* The caller takes the outcome; a sample is remembered for the next call.
ReturnBank ==
    /\ pc = "done"
    /\ pc' = "idle"
    /\ call' = [op |-> "new", args |-> <<>>]
    /\ bus' = <<>>
    /\ ret' = None
    /\ out' = <<>>
    /\ prev' = IF call.op = "read_sample" THEN ret ELSE None
    /\ UNCHANGED <<debug, configured, bank, twin>>

\* The device moves: one of its registers takes another value.
MoveBank ==
    /\ pc = "idle"
    /\ \E i \in 1..5, v \in BankVals :
         /\ v # bank[i]
         /\ bank' = [bank EXCEPT ![i] = v]
    /\ prev' = None
    /\ UNCHANGED <<debug, pc, call, bus, ret, out, configured, twin>>

\* The caller writes one of the bank's registers between two sample reads.
WriteBank ==
    /\ pc = "idle"
    /\ \E i \in 1..5, val \in BankVals :
         LET r == write_register(SAMPLE_REGISTERS[i], val, TRUE,
                                 <<HANDSHAKE, HANDSHAKE>>)
         IN  /\ call' = [op |-> "write_register",
                         args |-> <<SAMPLE_REGISTERS[i], val>>]
             /\ bus' = r.ev
             /\ ret' = r.ret
             /\ bank' = [bank EXCEPT ![i] = val]
    /\ out' = <<>>
    /\ pc' = "done"
    /\ prev' = None
    /\ UNCHANGED <<debug, configured, twin>>

NextBank ==
    \/ SampleBank
    \/ ReturnBank
    \/ MoveBank
    \/ WriteBank

SpecBank == InitBank /\ [][NextBank]_vars

(***************************************************************************)
(* Two handles that differ only in debug, running init side by side on the *)
(* same transport responses.  twin is the handle whose flag is ~debug.     *)
(***************************************************************************)
\* Variant: the product id is compared with 0x49 only when debug is set.
init_step_debugcheck(p, dbg, a) ==
    CASE p = "idle" -> init_reset(a[1], a[2])
      [] p = "init_product_id" ->
           IF dbg THEN init_product_id(dbg, a[1], a[2])
           ELSE init_product_id_unchecked(dbg, a[1], a[2])
      [] p = "init_inverse_id" -> init_inverse_id(dbg, a[1], a[2])
      [] p = "init_batch1" -> init_batch1(a[1], a[2])
      [] p = "init_sleep" -> init_sleep
      [] p = "init_batch2" -> init_batch2(a[1], a[2])

\* The step init takes at position p on the transport's answer a.
init_step(p, dbg, a) ==
    CASE p = "idle" -> init_reset(a[1], a[2])
      [] p = "init_product_id" -> init_product_id(dbg, a[1], a[2])
      [] p = "init_inverse_id" -> init_inverse_id(dbg, a[1], a[2])
      [] p = "init_batch1" -> init_batch1(a[1], a[2])
      [] p = "init_sleep" -> init_sleep
      [] p = "init_batch2" -> init_batch2(a[1], a[2])

\* What the transport may answer at position p of init.
InitAnswers(p) ==
    CASE p = "idle" -> Answers({HANDSHAKE, 0} \X {HANDSHAKE, 0})
      [] p \in {"init_product_id", "init_inverse_id"} -> Answers(SingleRx)
      [] p = "init_batch1" -> ConfigAnswers(Len(INIT_REGISTERS_1))
      [] p = "init_sleep" -> {<<TRUE, <<>> >>}
      [] p = "init_batch2" -> ConfigAnswers(Len(INIT_REGISTERS_2))

\* Both handles take their next step of init on the same answer.
PairStep ==
    /\ pc # "done"
    /\ twin.pc = pc
    /\ \E a \in InitAnswers(pc) :
         LET r == init_step(pc, debug, a)
             t == init_step(twin.pc, ~debug, a)
         IN  /\ call' = [op |-> "init", args |-> <<>>]
             /\ bus' = bus \o r.ev
             /\ out' = out \o r.out
             /\ ret' = r.ret
             /\ pc' = r.next
             /\ configured' = (configured \/ (r.next = "done" /\ r.ret.kind = "Ok"))
             /\ twin' = [pc |-> t.next, bus |-> twin.bus \o t.ev,
                         ret |-> t.ret, out |-> twin.out \o t.out]
    /\ UNCHANGED <<debug, bank, prev>>

\* Both calls have ended and both callers have their outcome.
PairReturn ==
    /\ pc = "done"
    /\ twin.pc = "done"
    /\ pc' = "idle"
    /\ call' = [op |-> "new", args |-> <<>>]
    /\ bus' = <<>>
    /\ ret' = None
    /\ out' = <<>>
    /\ twin' = TwinIdle
    /\ UNCHANGED <<debug, configured, bank, prev>>

\* The two callers swap their debug flags.
PairSetDebug ==
    /\ pc = "idle"
    /\ twin.pc = "idle"
    /\ debug' = ~debug
    /\ UNCHANGED <<pc, call, bus, ret, out, configured, aux>>

NextPair ==
    \/ PairStep
    \/ PairReturn
    \/ PairSetDebug

SpecPair == Init /\ [][NextPair]_vars

(***************************************************************************)
(* Properties.                                                             *)
(***************************************************************************)
\* The call `op` has ended.
Ended(op) == pc = "done" /\ call.op = op

\* Entry e is a transfer that succeeded with every frame answered by `frame`.
AllAnswered(e, frame) ==
    e.ok /\ \A j \in 1..Len(e.rx) : e.rx[j] = frame

\* Entry e is a single register read that succeeded with a valid handshake.
ReadGot(e) == e.t = "transfer" /\ e.ok /\ e.rx[1][1] = 255

\* C1 (as claimed): for addr in 0..0x7F and any val, when the transport
\* answers the write frame with both handshake bytes, write_register(addr, val)
\* returns exactly val.
C1_ReturnsVal ==
    (/\ Ended("write_register")
     /\ call.args[1] <= 127
     /\ AllAnswered(bus[1], <<255, 255>>))
    => ret = Ok(<<call.args[2]>>)

\* C1 (amended): under the same conditions write_register(addr, val) returns
\* the second response byte, which is the handshake 0xFF, whatever val is.
C1_ReturnsSecondByte ==
    (/\ Ended("write_register")
     /\ call.args[1] <= 127
     /\ AllAnswered(bus[1], <<255, 255>>))
    => /\ ret = Ok(<<255>>)
       /\ bus[1].tx = << <<call.args[1] + 128, call.args[2]>> >>

C1_Witness ==
    /\ Ended("write_register")
    /\ call.args = <<58, 90>>
    /\ AllAnswered(bus[1], <<255, 255>>)
    /\ ret.kind = "Ok"

\* C2: write_registers validates both response bytes of every frame: if some
\* frame's response byte 0 or byte 1 differs from 0xFF, the call does not
\* report success.
C2_BothBytesValidated ==
    (/\ Ended("write_registers")
     /\ bus[1].ok
     /\ \E i \in 1..Len(bus[1].rx) :
          bus[1].rx[i][1] # 255 \/ bus[1].rx[i][2] # 255)
    => ret.kind # "Ok"

\* The bus of a call as the device sees it: kind, frames and sleep time.
Wire(b) == [i \in 1..Len(b) |-> [t |-> b[i].t, tx |-> b[i].tx, ms |-> b[i].ms]]

WriteFrames(table) == [i \in 1..Len(table) |-> <<table[i][1] + 128, table[i][2]>>]

\* What a complete init puts on the bus.
InitWire ==
    << [t |-> "transfer", tx |-> << <<186, 90>> >>, ms |-> 0],
       [t |-> "transfer", tx |-> << <<0, 0>> >>, ms |-> 0],
       [t |-> "transfer", tx |-> << <<95, 0>> >>, ms |-> 0],
       [t |-> "transfer_multiple", tx |-> WriteFrames(INIT_REGISTERS_1), ms |-> 0],
       [t |-> "sleep", tx |-> <<>>, ms |-> 100],
       [t |-> "transfer_multiple", tx |-> WriteFrames(INIT_REGISTERS_2), ms |-> 0] >>

\* Entry i of an init call succeeded with valid handshakes and, for the two
\* identity reads, the expected identity.
CleanInitEntry(i) ==
    /\ bus[i].ok
    /\ i = 2 => bus[i].rx = << <<255, 73>> >>
    /\ i = 3 => bus[i].rx = << <<255, 182>> >>
    /\ i \notin {2, 3} => AllAnswered(bus[i], <<255, 255>>)

CleanInit == call.op = "init" /\ \A i \in 1..Len(bus) : CleanInitEntry(i)

\* C3: when init reads product ID 0x49 and inverse product ID 0xB6 and every
\* handshake is valid, what it has put on the bus is at every moment a prefix
\* of: reset write, the two identity reads, every pair of batch 1 in table
\* order, the 100 ms sleep, every pair of batch 2 in table order; and when it
\* ends it has succeeded with all of it on the bus.
C3_InitOrder ==
    CleanInit =>
      /\ Len(bus) <= Len(InitWire)
      /\ Wire(bus) = SubSeq(InitWire, 1, Len(bus))
      /\ pc = "done" => (ret = Ok(<<>>) /\ Wire(bus) = InitWire)

C3_Witness ==
    /\ Ended("init")
    /\ CleanInit
    /\ Len(bus) = 6
    /\ bus[5].t = "sleep"

\* init read a product ID other than 0x49, or an inverse product ID other
\* than 0xB6.
IdMismatch ==
    /\ call.op = "init"
    /\ \/ Len(bus) >= 2 /\ ReadGot(bus[2]) /\ bus[2].rx[1][2] # 73
       \/ Len(bus) >= 3 /\ ReadGot(bus[3]) /\ bus[3].rx[1][2] # 182

NoConfigWrite ==
    \A i \in 1..Len(bus) : bus[i].t \notin {"transfer_multiple", "sleep"}

\* C4 (as claimed): on an identity mismatch init fails with IdentityMismatch
\* returned to the caller and issues no configuration write.
C4_MismatchReturned ==
    IdMismatch =>
      /\ pc = "done"
      /\ ret.kind = "Err"
      /\ NoConfigWrite

\* C4 (amended): on an identity mismatch init panics (it returns neither Ok
\* nor Err) and no configuration write is ever submitted in that call.
C4_MismatchPanics ==
    IdMismatch =>
      /\ pc = "done"
      /\ ret.kind = "Panic"
      /\ ret.msg \in {"Unexpected product id (expected 0x49)",
                      "Unexpected inverse product id (expected 0xb6)"}
      /\ NoConfigWrite

C4_Witness ==
    /\ Ended("init")
    /\ Len(bus) = 3
    /\ ReadGot(bus[3])
    /\ bus[3].rx[1][2] = 73
    /\ ret.kind = "Panic"

\* The write frames of the k-th configuration batch on the bus.
ConfigBatches == SelectSeq(bus, LAMBDA e : e.t = "transfer_multiple")

\* C5 (as claimed): a successful init issues exactly 55 register writes in
\* configuration batch 1 and exactly 14 in configuration batch 2.
C5_Counts55 ==
    (Ended("init") /\ ret.kind = "Ok") =>
      /\ Len(ConfigBatches) = 2
      /\ Len(ConfigBatches[1].tx) = 55
      /\ Len(ConfigBatches[2].tx) = 14

\* C5 (amended): a successful init issues exactly 59 register writes in
\* configuration batch 1 and exactly 14 in configuration batch 2.
C5_Counts59 ==
    (Ended("init") /\ ret.kind = "Ok") =>
      /\ Len(ConfigBatches) = 2
      /\ Len(ConfigBatches[1].tx) = 59
      /\ Len(ConfigBatches[2].tx) = 14

C5_Witness ==
    /\ Ended("init")
    /\ ret.kind = "Ok"
    /\ Len(ConfigBatches) = 2

\* C6: for every addr with bit 7 set and every val, write_register(addr, val)
\* is rejected before any transfer: the call panics and nothing is on the bus.
C6_HighBitRejected ==
    (Ended("write_register") /\ call.args[1] >= 128) =>
      /\ ret.kind = "Panic"
      /\ ret.msg = "Write bit already set on addr"
      /\ bus = <<>>

C6_Witness ==
    /\ Ended("write_register")
    /\ call.args = <<186, 90>>
    /\ ret.kind = "Panic"

\* The single read got a first response byte other than 0xFF.
BadReadHandshake ==
    /\ Ended("read_register")
    /\ bus[1].ok
    /\ bus[1].rx[1][1] # 255

\* C7 (as claimed): when the first inbound byte is not 0xFF, read_register
\* returns a failure result (UnexpectedHandshake) to the caller and no
\* register value.
C7_HandshakeReturned ==
    BadReadHandshake => ret.kind = "Err"

\* C7 (amended): when the first inbound byte is not 0xFF, read_register
\* panics: it returns no register value and no failure result.
C7_HandshakePanics ==
    BadReadHandshake =>
      /\ ret.kind = "Panic"
      /\ ret.msg = "Unexpected first byte in read response"
      /\ ret.val = <<bus[1].rx[1][1]>>

C7_Witness ==
    /\ BadReadHandshake
    /\ bus[1].rx[1] = <<0, 73>>
    /\ ret.kind = "Panic"

\* C8: when every frame's response has first byte 0xFF, read_registers
\* returns exactly N values and the i-th is the second response byte of the
\* frame built for the i-th input address.
C8_OrderPreserved ==
    (/\ Ended("read_registers")
     /\ bus[1].ok
     /\ \A i \in 1..Len(bus[1].rx) : bus[1].rx[i][1] = 255)
    => /\ ret.kind = "Ok"
       /\ Len(ret.val) = Len(call.args)
       /\ Len(bus[1].tx) = Len(call.args)
       /\ \A i \in 1..Len(call.args) :
            /\ bus[1].tx[i] = <<call.args[i], 0>>
            /\ ret.val[i] = bus[1].rx[i][2]

C8_Witness ==
    /\ Ended("read_registers")
    /\ call.args = <<2, 127>>
    /\ bus[1].ok
    /\ ret = Ok(<<16, 240>>)

\* C9: if the k-th frame's first response byte is not 0xFF, read_registers
\* fails the whole call: it panics and the caller receives no value, not even
\* those of frames 1..k-1.
C9_NoPartialResult ==
    (/\ Ended("read_registers")
     /\ bus[1].ok
     /\ \E k \in 1..Len(bus[1].rx) : bus[1].rx[k][1] # 255)
    => /\ ret.kind = "Panic"
       /\ ret.msg = "Unexpected first byte in read response"

C9_Witness ==
    /\ Ended("read_registers")
    /\ Len(call.args) = 3
    /\ bus[1].ok
    /\ bus[1].rx[1][1] = 255
    /\ bus[1].rx[2][1] = 255
    /\ bus[1].rx[3][1] # 255
    /\ ret.kind = "Panic"

\* v is the two's-complement signed 16-bit value of the unsigned u.
IsI16Of(v, u) == v \in -32768..32767 /\ (v - u) % 65536 = 0

\* The sample read succeeded with a valid handshake on each of the five frames.
GoodSampleRead ==
    /\ Ended("read_sample")
    /\ bus[1].ok
    /\ \A i \in 1..5 : bus[1].rx[i][1] = 255

\* C10: with valid handshakes read_sample returns x as the signed 16-bit value
\* of (b3 + 256*b4) and y as that of (b5 + 256*b6), whatever register 0x02
\* returned; 0x10, 0x00, 0xF0, 0xFF gives x = 16, y = -16.
C10_SampleAssembly ==
    GoodSampleRead =>
      LET b == [i \in 1..5 |-> bus[1].rx[i][2]]
      IN  /\ ret.kind = "Ok"
          /\ Len(ret.val) = 2
          /\ IsI16Of(ret.val[1], b[2] + 256 * b[3])
          /\ IsI16Of(ret.val[2], b[4] + 256 * b[5])
          /\ (b[2] = 16 /\ b[3] = 0 /\ b[4] = 240 /\ b[5] = 255)
               => ret.val = <<16, -16>>

C10_Witness ==
    /\ GoodSampleRead
    /\ [i \in 1..5 |-> bus[1].rx[i][2]] = <<73, 16, 0, 240, 255>>
    /\ ret = Ok(<<16, -16>>)

\* The bus log b holds the power-on-reset write frame [0x3A | 0x80, 0x5A].
SendsReset(b) ==
    \E i \in 1..Len(b) : \E j \in 1..Len(b[i].tx) : b[i].tx[j] = <<186, 90>>

\* C13 (as claimed): once init has completed successfully on a handle, no later
\* operation on that handle re-issues the power-on-reset write.
C13_NoResetAgain ==
    [][configured => ~SendsReset(bus')]_vars

\* C13 (amended): the handle keeps no lifecycle state, so once init has
\* completed successfully the power-on-reset write is issued again exactly by
\* the calls that ask for it: a further init, which is accepted and starts
\* over, or a register write of (0x3A, 0x5A); no read operation issues it.
C13_ResetOnlyOnRequest ==
    [][(configured /\ SendsReset(bus')) =>
          call'.op \in {"init", "write_register", "write_registers"}]_vars

C13_Witness ==
    /\ configured
    /\ call.op = "init"
    /\ pc = "init_product_id"
    /\ SendsReset(bus)

\* The call is a register read: read_register(addr) or read_registers(addrs).
EndedRead == Ended("read_register") \/ Ended("read_registers")

\* C14 (as claimed): every frame read_register or read_registers puts on the
\* bus has bit 7 of byte 0 clear, for every address the caller can pass.
C14_ReadBitClear ==
    EndedRead =>
      \A i \in 1..Len(bus) : \A j \in 1..Len(bus[i].tx) : bus[i].tx[j][1] < 128

\* C14 (amended): every frame read_register or read_registers puts on the bus
\* is [addr, 0] with addr exactly as the caller passed it: reads never set the
\* write bit, and never clear it, so bit 7 of byte 0 is clear exactly when the
\* caller's address is in 0..0x7F.
C14_ReadFrameIsAddress ==
    EndedRead =>
      /\ Len(bus) = 1
      /\ Len(bus[1].tx) = Len(call.args)
      /\ \A j \in 1..Len(call.args) :
           /\ bus[1].tx[j] = <<call.args[j], 0>>
           /\ bus[1].tx[j][1] < 128 <=> call.args[j] < 128

C14_Witness ==
    /\ Ended("read_registers")
    /\ call.args = <<2, 130>>
    /\ bus[1].tx = << <<2, 0>>, <<130, 0>> >>

\* C15: in every run of init the first frame is the power-on-reset write
\* [0xBA, 0x5A]; register 0x00 is read only after that write was validated,
\* register 0x5F only after the product ID was 0x49, and no configuration
\* write is submitted before both identity reads have passed.
C15_InitSequence ==
    call.op = "init" =>
      /\ Len(bus) >= 1
      /\ bus[1].t = "transfer" /\ bus[1].tx = << <<186, 90>> >>
      /\ Len(bus) >= 2 =>
           /\ AllAnswered(bus[1], <<255, 255>>)
           /\ bus[2].t = "transfer" /\ bus[2].tx = << <<0, 0>> >>
      /\ Len(bus) >= 3 =>
           /\ ReadGot(bus[2]) /\ bus[2].rx[1][2] = 73
           /\ bus[3].t = "transfer" /\ bus[3].tx = << <<95, 0>> >>
      /\ \A i \in 1..Len(bus) :
           bus[i].t \in {"transfer_multiple", "sleep"} =>
             /\ i >= 4
             /\ ReadGot(bus[3]) /\ bus[3].rx[1][2] = 182

C15_Witness ==
    /\ call.op = "init"
    /\ Len(bus) = 4
    /\ bus[4].t = "transfer_multiple"
    /\ bus[3].rx = << <<255, 182>> >>

\* C16: if a transport transfer fails during init (reset write, either
\* identity read, batch 1 or batch 2), init returns that error at once: the
\* failed transfer is the last thing on the bus (no retry, no later step, so
\* no sleep and no batch 2 after a failed batch 1).
C16_TransportErrorEndsInit ==
    call.op = "init" =>
      \A i \in 1..Len(bus) :
        ~bus[i].ok => (i = Len(bus) /\ pc = "done" /\ ret = Err)

C16_Witness ==
    /\ Ended("init")
    /\ Len(bus) = 4
    /\ bus[4].t = "transfer_multiple"
    /\ ~bus[4].ok
    /\ ret = Err

\* C17: every call of read_sample, whatever its outcome, submits exactly one
\* batched transport operation, the five read frames for registers 0x02,
\* 0x03, 0x04, 0x05, 0x06 in that order, transmits no write frame, and leaves
\* the handle (its debug flag) unchanged.
C17_SampleEffect ==
    [][(pc = "idle" /\ call'.op = "read_sample") =>
         /\ pc' = "done"
         /\ Len(bus') = 1
         /\ bus'[1].t = "transfer_multiple"
         /\ bus'[1].tx = << <<2, 0>>, <<3, 0>>, <<4, 0>>, <<5, 0>>, <<6, 0>> >>
         /\ \A j \in 1..5 : bus'[1].tx[j][1] < 128
         /\ debug' = debug]_vars

C17_Witness ==
    /\ Ended("read_sample")
    /\ ret.kind = "Panic"
    /\ Len(bus) = 1
    /\ Len(bus[1].tx) = 5

\* C18: read_registers and write_registers validate no response before the
\* whole batch has been submitted: when the call fails on the handshake of
\* frame k, all N frames, k+1..N included, are on the bus already.  The same
\* holds for the two configuration batches of init.
C18_WholeBatchSent ==
    /\ ((Ended("read_registers") \/ Ended("write_registers"))
         /\ ret.kind = "Panic") =>
         /\ Len(bus) = 1
         /\ bus[1].t = "transfer_multiple"
         /\ Len(bus[1].tx) = Len(call.args)
         /\ \A j \in 1..Len(call.args) :
              IF call.op = "read_registers"
              THEN bus[1].tx[j][1] = call.args[j]
              ELSE bus[1].tx[j][2] = call.args[j][2]
    /\ (Ended("init") /\ ret.kind = "Panic" /\ Len(bus) >= 4) =>
         Len(bus[Len(bus)].tx) =
           IF Len(bus) = 4 THEN Len(INIT_REGISTERS_1) ELSE Len(INIT_REGISTERS_2)

C18_Witness ==
    /\ Ended("read_registers")
    /\ Len(call.args) = 3
    /\ bus[1].rx[1][1] # 255
    /\ ret.kind = "Panic"
    /\ Len(bus[1].tx) = 3

\* C19: every address of both configuration tables is in 0..0x7F, so every
\* configuration frame init sends has byte 0 equal to the table address plus
\* 0x80 and byte 1 equal to the table value.
C19_NoAliasing ==
    call.op = "init" =>
      \A b \in 1..Len(ConfigBatches) :
        LET table == IF b = 1 THEN INIT_REGISTERS_1 ELSE INIT_REGISTERS_2
            tx == ConfigBatches[b].tx
        IN  /\ Len(tx) = Len(table)
            /\ \A i \in 1..Len(table) :
                 /\ table[i][1] \in 0..127
                 /\ tx[i][1] = table[i][1] + 128
                 /\ tx[i][2] = table[i][2]

C19_Witness ==
    /\ call.op = "init"
    /\ Len(ConfigBatches) = 2
    /\ ConfigBatches[2].tx[1] = <<178, 68>>

\* The outcome kinds of calling the single operation on each element of the
\* batch in order, each frame getting the response the batch got for it.
SingleWriteKinds ==
    [j \in 1..Len(call.args) |->
       write_register(call.args[j][1], call.args[j][2], TRUE, bus[1].rx[j]).ret.kind]
SingleReadKinds ==
    [j \in 1..Len(call.args) |->
       read_register(call.args[j], TRUE, bus[1].rx[j]).ret.kind]

\* C12: a batched call behaves as N single calls in order with the same
\* validation: on the same responses write_registers succeeds exactly when
\* write_register succeeds on every pair, and read_registers exactly when
\* read_register succeeds on every address.  Stated for register addresses
\* in 0..0x7F, the addresses both write paths accept.
C12_BatchEqualsSingles ==
    /\ (/\ Ended("write_registers")
        /\ bus[1].ok
        /\ \A j \in 1..Len(call.args) : call.args[j][1] <= 127)
       => (ret.kind = "Ok" <=>
             \A j \in 1..Len(call.args) : SingleWriteKinds[j] = "Ok")
    /\ (Ended("read_registers") /\ bus[1].ok)
       => (ret.kind = "Ok" <=>
             \A j \in 1..Len(call.args) : SingleReadKinds[j] = "Ok")

C20_DebugNoInfluence ==
    /\ twin.pc = pc
    /\ twin.bus = bus
    /\ twin.ret = ret

C20_Witness ==
    /\ Ended("init")
    /\ twin.pc = "done"
    /\ ret = Ok(<<>>)
    /\ Len(bus) = 6
    /\ out # twin.out

====
